---- MODULE Spec2Model ----
(***************************************************************************)
(* A model of the druid run loop (druid/src/app.rs, AppLauncher::launch),   *)
(* of the window handle's tokens, timers and idle posts                    *)
(* (druid-shell/src/window.rs), and of the modifiers and the key           *)
(* translation (druid-shell/src/keyboard.rs).                              *)
(*                                                                         *)
(* The closure passed to event_loop.run is modelled arm by arm.  winit     *)
(* itself is the environment: it decides when the closure is called and    *)
(* with what.  Its rules, as far as the closure relies on them, are        *)
(*   - the proxy's user events are delivered in the order they were sent;  *)
(*   - one iteration is NewEvents(cause), then the pending window and user *)
(*     events, then MainEventsCleared / RedrawEventsCleared, then a wait   *)
(*     according to control_flow;                                          *)
(*   - with control_flow = WaitUntil(t) the cause of the next iteration is *)
(*     ResumeTimeReached{requested_resume: t} when the clock has reached   *)
(*     t, and WaitCancelled otherwise;                                     *)
(*   - once control_flow is Exit it stays Exit, the iteration is finished  *)
(*     and LoopDestroyed is the last call.                                 *)
(***************************************************************************)
EXTENDS Integers, Sequences, FiniteSets, TLC

\* ------------------------------------------------------------------ bounds
MaxTime == 2
MaxTimers == 3
MaxIdle == 2
MaxCalls == 3
MaxEvents == 3

Windows == {1, 2, 3}
\* The windows of the launcher, built before the loop runs.
LaunchWindows == {1, 2}
Durations == {0, 1, 2}
Threads == {"ui", "t1", "t2"}
\* The threads that call next() concurrently.
TokenThreads == {"t1", "t2"}
LoopThread == "ui"
IdleTokens == {0, 1}
TokenKinds == {"Timer", "TextField", "FileDialog"}

\* What happens in one run: how many timers the application requests, idle
\* tokens it schedules, windows it adds, and windows it agrees to close, and
\* how many other window occurrences winit reports.  One run is about timers,
\* one about idle posts, one has idle posts and a new window, one idle posts
\* and a timer, and one is about the occurrences on the windows.
Workloads ==
    {[timers |-> MaxTimers, idles |-> 0, new_windows |-> 0, closes |-> 0, inputs |-> 0],
     [timers |-> 0, idles |-> MaxIdle, new_windows |-> 0, closes |-> 2, inputs |-> 0],
     [timers |-> 0, idles |-> 2, new_windows |-> 1, closes |-> 3, inputs |-> 0],
     [timers |-> 1, idles |-> 2, new_windows |-> 0, closes |-> 2, inputs |-> 0]}

\* The run about the occurrences on the windows.
InputWorkload ==
    [timers |-> 0, idles |-> 0, new_windows |-> 0, closes |-> 2, inputs |-> MaxEvents]

\* cfg(target_os = "macos"): the build modelled is one for another platform.
TargetMacos == FALSE

\* ------------------------------------------------------------------- state
VARIABLES
    now,            \* std::time::Instant::now(), in ticks
    phase,          \* the run loop: "Init", "Waiting", "Processing", "Exiting",
                    \* "Stopped"; "Launching" and "Returned" before and
                    \* instead of the loop
    control_flow,   \* *control_flow
    timer_tokens,   \* the BTreeMap<Instant, (WindowId, TimerToken)> of launch
    queue,          \* user events sent through the EventLoopProxy, not yet handled
    windows,        \* the windows AppState holds (windows_count counts them)
    pending_windows,\* windows requested and not yet created
    workload,       \* the requests the application still makes
    counter,        \* the static Counter of each token kind
    calls,          \* per thread: a next() call between its fetch and its return
    minted,         \* per token kind: the tokens next() has returned, in order
    text_fields,    \* the tokens add_text_field has returned, in order
    timer_requests, \* history: the request_timer calls made, each with the token
                    \* returned and the window of the handle
    timer_log,      \* history: the Event::Timer dispatches made
    idle_sent,      \* history: the schedule_idle calls made, in order
    idle_log,       \* history: the state.idle calls made, in order
    idle_added,     \* history: the number of add_idle calls made
    callback_log,   \* history: the add_idle callbacks that were called
    mods,           \* AppState: per window, the Modifiers set_mods stored
    mouse_buttons,  \* AppState: per window, the MouseButtons held
    mouse_pos,      \* AppState: per window, the last position of the mouse
    last_mods,      \* history: per window, the ModifiersState of the last
                    \* ModifiersChanged occurrence (no key before the first)
    held,           \* history: per window, the buttons winit reported pressed
                    \* and not yet released
    occurrence_count, \* history: the window occurrences the closure received
    event_count,    \* history: the events and requests handed to the handler
    dispatched,     \* history: the last event handed to the handler
    pure_call,      \* a call of a function of keyboard.rs or of a WindowHandle:
                    \* arguments and result
    scale,          \* AppState: per window, the scale factor stored
    close_calls,    \* history: the windows WindowHandle::close was called on
    launch,         \* AppLauncher::launch: the window descriptions still to
                    \* build (descs), the windows build_native created
                    \* (created), the windows show was called on (shown), what
                    \* launch returned (result, "-" while it has not)
    native_state,   \* per window, what the winit Window holds: maximized, minimized
    last_set        \* history: per window, the last state set_window_state was
                    \* called with ("-" before the first call)

loop_vars == <<now, phase, control_flow, timer_tokens, queue, windows,
               pending_windows, workload>>
token_vars == <<counter, calls, minted, text_fields>>
hist_vars == <<timer_requests, timer_log, idle_sent, idle_log>>
input_vars == <<mods, mouse_buttons, mouse_pos, last_mods, held,
                occurrence_count, event_count, dispatched, scale>>
win_vars == <<close_calls, launch, native_state, last_set>>
ext_vars == <<idle_added, callback_log, input_vars, pure_call, win_vars>>
vars == <<loop_vars, token_vars, hist_vars, ext_vars>>

\* ----------------------------------------------------------------- helpers
Min(S) == CHOOSE x \in S : \A y \in S : x <= y

Wait == [kind |-> "Wait", at |-> 0]
WaitUntil(instant) == [kind |-> "WaitUntil", at |-> instant]
Exit == [kind |-> "Exit", at |-> 0]
Poll == [kind |-> "Poll", at |-> 0]

\* A write to *control_flow: winit ignores it once the loop is exiting.
SetControlFlow(cf) == IF control_flow.kind = "Exit" THEN control_flow ELSE cf

\* BTreeMap::insert: the entry of an existing key is replaced.
MapInsert(m, k, v) == [x \in (DOMAIN m) \cup {k} |-> IF x = k THEN v ELSE m[x]]

MapRemoveKeeps(m, k) == m

\* BTreeMap::remove of a key of the map.
MapRemove(m, k) == [x \in (DOMAIN m) \ {k} |-> m[x]]

LastKey(m) == CHOOSE x \in DOMAIN m : \A y \in DOMAIN m : y <= x

\* timer_tokens.keys().next(): the first, i.e. smallest, key.
FirstKey(m) == Min(DOMAIN m)

EmptyMap == [x \in {} |-> 0]

\* common_util::Counter::new(): the first value next() returns.
CounterNew == 1

\* The WinitEvent values.  Beside the fields of the variant a message carries,
\* as history, the time its timer was asked for (due: the time of the
\* request_timer call plus the duration) or the number and handle of its
\* schedule_idle call (id, handle).
TimerMsg(w, token, deadline, due) ==
    [type |-> "Timer", window_id |-> w, token |-> token, deadline |-> deadline,
     due |-> due, id |-> 0, handle |-> "-"]
IdleMsg(token, id, handle) ==
    [type |-> "Idle", window_id |-> 0, token |-> token, deadline |-> 0,
     due |-> 0, id |-> id, handle |-> handle]
NewWindowMsg ==
    [type |-> "NewWindow", window_id |-> 0, token |-> 0, deadline |-> 0,
     due |-> 0, id |-> 0, handle |-> "-"]

\* KbKey, i.e. keyboard_types::Key: Character(text) or a named key.
Character(text) == [variant |-> "Character", text |-> text]
Named(name) == [variant |-> name, text |-> ""]

\* No event has been handed to the handler yet.
NoEvent ==
    [type |-> "None", window_id |-> 0, buttons |-> {}, mods |-> 0,
     button |-> "None", pos |-> 0, state |-> "-", key |-> Named("-"),
     code |-> "-", location |-> "-", repeat |-> FALSE, closes |-> FALSE,
     scale |-> 0]

\* The window geometry winit reports: the outer and the inner position (ok is
\* FALSE when the platform gives none) and the outer and the inner size.
NoGeometry ==
    [outer_ok |-> FALSE, outer_x |-> 0, outer_y |-> 0,
     outer_width |-> 0, outer_height |-> 0,
     inner_ok |-> FALSE, inner_x |-> 0, inner_y |-> 0,
     inner_width |-> 0, inner_height |-> 0]

\* kurbo::Insets
Insets(x0, y0, x1, y1) == [x0 |-> x0, y0 |-> y0, x1 |-> x1, y1 |-> y1]

\* No function is being called.
NoCall ==
    [fn |-> "-", self |-> 0, other |-> 0, value |-> FALSE, input |-> "-",
     shift |-> FALSE, ret_mods |-> 0, ret_bool |-> FALSE,
     ret_key |-> Named("-"), ret_code |-> "-", done |-> FALSE,
     window |-> 0, geometry |-> NoGeometry, ret_state |-> "-",
     ret_insets |-> Insets(0, 0, 0, 0)]

\* What AppState::new and the statics hold before a window is built, and the
\* histories before anything has happened.
AppInit ==
    /\ now = 0
    /\ control_flow = Poll
    /\ timer_tokens = EmptyMap
    /\ queue = <<>>
    /\ pending_windows = {}
    /\ scale = [w \in Windows |-> 1]
    /\ close_calls = {}
    /\ native_state = [w \in Windows |-> [maximized |-> FALSE, minimized |-> FALSE]]
    /\ last_set = [w \in Windows |-> "-"]
    /\ counter = [k \in TokenKinds |-> CounterNew]
    /\ calls = [t \in Threads |-> [pc |-> "idle", kind |-> "-", raw |-> 0]]
    /\ minted = [k \in TokenKinds |-> <<>>]
    /\ text_fields = <<>>
    /\ timer_requests = {}
    /\ timer_log = <<>>
    /\ idle_sent = <<>>
    /\ idle_log = <<>>
    /\ idle_added = 0
    /\ callback_log = <<>>
    /\ mods = [w \in Windows |-> 0]
    /\ mouse_buttons = [w \in Windows |-> {}]
    /\ mouse_pos = [w \in Windows |-> 0]
    /\ last_mods = [w \in Windows |-> {}]
    /\ held = [w \in Windows |-> {}]
    /\ occurrence_count = 0
    /\ event_count = 0
    /\ dispatched = NoEvent

\* The state of launch when event_loop.run is called: every window of the
\* launcher has been built and shown.
LoopInit ==
    /\ AppInit
    /\ phase = "Init"
    /\ windows = LaunchWindows
    /\ launch = [descs |-> <<>>, created |-> LaunchWindows,
                 shown |-> LaunchWindows, result |-> "-"]

Init ==
    /\ LoopInit
    /\ workload \in Workloads
    /\ pure_call = NoCall

Running == phase /= "Stopped"

\* The clock advances.
Tick ==
    /\ Running
    /\ now < MaxTime
    /\ now' = now + 1
    /\ UNCHANGED <<phase, control_flow, timer_tokens, queue, windows,
                   pending_windows, workload, token_vars, hist_vars>>
    /\ UNCHANGED ext_vars

\* ------------------------------------------------------------------ tokens
\* common_util::Counter::next(): an atomic fetch-and-add of 1 that returns the
\* value before the add.
Counter_next(k, raw) ==
    /\ raw = counter[k]
    /\ counter' = [counter EXCEPT ![k] = counter[k] + 1]

TokenStale(raw) == 0

\* TimerToken(TIMER_COUNTER.next()): the token wraps the counter's value.
TimerToken_next(raw) == raw

\* TextFieldToken(TEXT_FIELD_COUNTER.next())
TextFieldToken_next(raw) == raw

\* FileDialogToken(COUNTER.next())
FileDialogToken_next(raw) == raw

INVALID == 0

TokenOfKind(k, raw) ==
    CASE k = "Timer" -> TimerToken_next(raw)
      [] k = "TextField" -> TextFieldToken_next(raw)
      [] k = "FileDialog" -> FileDialogToken_next(raw)

\* A thread enters next() of kind k and does the counter's fetch-and-add.
FetchNext(t, k) ==
    /\ Running
    /\ calls[t].pc = "idle"
    /\ counter[k] <= MaxCalls
    /\ \E raw \in {counter[k]} :
          /\ Counter_next(k, raw)
          /\ calls' = [calls EXCEPT ![t] = [pc |-> "fetched", kind |-> k, raw |-> raw]]
    /\ UNCHANGED <<loop_vars, minted, text_fields, hist_vars>>
    /\ UNCHANGED ext_vars

\* The thread's next() returns the token.
ReturnNext(t) ==
    /\ calls[t].pc = "fetched"
    /\ minted' = [minted EXCEPT ![calls[t].kind] =
                     Append(@, TokenOfKind(calls[t].kind, calls[t].raw))]
    /\ calls' = [calls EXCEPT ![t] = [pc |-> "idle", kind |-> "-", raw |-> 0]]
    /\ UNCHANGED <<loop_vars, counter, text_fields, hist_vars>>
    /\ UNCHANGED ext_vars

\* WindowHandle::add_text_field: returns TextFieldToken(0).
AddTextField ==
    /\ Running
    /\ Len(text_fields) < MaxCalls
    /\ text_fields' = Append(text_fields, 0)
    /\ UNCHANGED <<loop_vars, counter, calls, minted, hist_vars>>
    /\ UNCHANGED ext_vars

\* ------------------------------------------------- requests to the run loop
\* EventLoopProxy::send_event: the event joins the loop's queue of user events.
SendEvent(msg) == queue' = Append(queue, msg)

\* WindowHandle::request_timer, called with the handle of window w.
RequestTimer(w, deadline) ==
    /\ Running
    /\ w \in windows
    /\ workload.timers > 0
    /\ workload' = [workload EXCEPT !.timers = @ - 1]
    /\ \E raw \in {counter["Timer"]} :
          /\ Counter_next("Timer", raw)
          /\ LET token == TimerToken_next(raw) IN
                /\ SendEvent(TimerMsg(w, token, deadline, now + deadline))
                /\ minted' = [minted EXCEPT !["Timer"] = Append(@, token)]
                /\ timer_requests' = timer_requests \cup
                      {[token |-> token, window_id |-> w]}
    /\ UNCHANGED <<now, phase, control_flow, timer_tokens, windows,
                   pending_windows, calls, text_fields,
                   timer_log, idle_sent, idle_log>>
    /\ UNCHANGED ext_vars

\* schedule_idle with the event put before the events already waiting.
ScheduleIdleFront(t, token) ==
    /\ Running
    /\ workload.idles > 0
    /\ workload' = [workload EXCEPT !.idles = @ - 1]
    /\ queue' = <<IdleMsg(token, Len(idle_sent) + 1, t)>> \o queue
    /\ idle_sent' = Append(idle_sent, [token |-> token, handle |-> t])
    /\ UNCHANGED <<now, phase, control_flow, timer_tokens, windows,
                   pending_windows, token_vars,
                   timer_requests, timer_log, idle_log>>
    /\ UNCHANGED ext_vars

\* schedule_idle calling the handler itself, on the caller's thread.
ScheduleIdleDirect(t, token) ==
    /\ Running
    /\ workload.idles > 0
    /\ workload' = [workload EXCEPT !.idles = @ - 1]
    /\ idle_sent' = Append(idle_sent, [token |-> token, handle |-> t])
    /\ idle_log' = Append(idle_log,
          [token |-> token, id |-> Len(idle_sent) + 1, handle |-> t,
           thread |-> t])
    /\ UNCHANGED <<now, phase, control_flow, timer_tokens, queue, windows,
                   pending_windows, token_vars, timer_requests, timer_log>>
    /\ UNCHANGED ext_vars

\* IdleHandle::schedule_idle, called on thread t's clone of the handle.
ScheduleIdle(t, token) ==
    /\ Running
    /\ workload.idles > 0
    /\ workload' = [workload EXCEPT !.idles = @ - 1]
    /\ SendEvent(IdleMsg(token, Len(idle_sent) + 1, t))
    /\ idle_sent' = Append(idle_sent, [token |-> token, handle |-> t])
    /\ UNCHANGED <<now, phase, control_flow, timer_tokens, windows,
                   pending_windows, token_vars,
                   timer_requests, timer_log, idle_log>>
    /\ UNCHANGED ext_vars

\* The application asks for a new window: AppState queues it and posts NewWindow.
RequestNewWindow(w) ==
    /\ Running
    /\ w \notin windows \cup pending_windows
    /\ workload.new_windows > 0
    /\ workload' = [workload EXCEPT !.new_windows = @ - 1]
    /\ pending_windows' = pending_windows \cup {w}
    /\ SendEvent(NewWindowMsg)
    /\ UNCHANGED <<now, phase, control_flow, timer_tokens, windows,
                   token_vars, hist_vars>>
    /\ UNCHANGED ext_vars

\* --------------------------------------------------------------- Modifiers
\* Modifiers wraps the bit set keyboard_types::Modifiers; a value is the number
\* whose bits are the flags set.
ALT == 1
ALT_GRAPH == 2
CAPS_LOCK == 4
CONTROL == 8
FN == 16
FN_LOCK == 32
META == 64
NUM_LOCK == 128
SCROLL_LOCK == 256
SHIFT == 512
SYMBOL == 1024
SYMBOL_LOCK == 2048
HYPER == 4096
SUPER == 8192

\* Every flag: the bits a Modifiers value can have.
Modifiers_all == 16383

RECURSIVE BitAndBits(_, _)
\* a & b on the underlying bits.
BitAndBits(a, b) ==
    IF a = 0 \/ b = 0 THEN 0
    ELSE (a % 2) * (b % 2) + 2 * BitAndBits(a \div 2, b \div 2)

RECURSIVE BitOrBits(_, _)
\* a | b on the underlying bits.
BitOrBits(a, b) ==
    IF a = 0 THEN b
    ELSE IF b = 0 THEN a
    ELSE (IF a % 2 = 1 \/ b % 2 = 1 THEN 1 ELSE 0)
         + 2 * BitOrBits(a \div 2, b \div 2)

\* impl BitAnd for Modifiers
Modifiers_bitand(self, rhs) == BitAndBits(self, rhs)

\* impl BitOr for Modifiers
Modifiers_bitor(self, rhs) == BitOrBits(self, rhs)

\* impl Not for Modifiers: the flags that are not set.
Modifiers_not(self) == Modifiers_all - self

\* Modifiers::empty()
Modifiers_empty == 0

Modifiers_contains_any(self, other) == BitAndBits(self, other) /= 0

\* Modifiers::contains: self.0.contains(other.0), i.e. self & other == other.
Modifiers_contains(self, other) == BitAndBits(self, other) = other

Modifiers_set_toggles(self, other, value) ==
    IF value
    THEN BitOrBits(self, other) - BitAndBits(self, other)
    ELSE BitAndBits(self, Modifiers_not(other))

\* Modifiers::set: self.0.set(other.0, value), i.e. insert the flags of other
\* when value is true and remove them when it is false.
Modifiers_set(self, other, value) ==
    IF value
    THEN BitOrBits(self, other)
    ELSE BitAndBits(self, Modifiers_not(other))

\* Modifiers::shift
Modifiers_shift(self) == Modifiers_contains(self, SHIFT)

\* ------------------------------------------------------- key translation
\* winit::event::VirtualKeyCode: the variants the matches of keyboard.rs name;
\* both matches are exhaustive, without a wildcard arm.
VirtualKeyCode ==
    {"Key1", "Key2", "Key3", "Key4", "Key5", "Key6", "Key7", "Key8", "Key9",
     "Key0", "A", "B", "C", "D", "E", "F", "G", "H", "I", "J", "K", "L", "M",
     "N", "O", "P", "Q", "R", "S", "T", "U", "V", "W", "X", "Y", "Z",
     "Escape", "F1", "F2", "F3", "F4", "F5", "F6", "F7", "F8", "F9", "F10",
     "F11", "F12", "F13", "F14", "F15", "F16", "F17", "F18", "F19", "F20",
     "F21", "F22", "F23", "F24", "Snapshot", "Scroll", "Pause", "Insert",
     "Home", "Delete", "End", "PageDown", "PageUp", "Left", "Up", "Right",
     "Down", "Back", "Return", "Space", "Compose", "Caret", "Numlock",
     "Numpad0", "Numpad1", "Numpad2", "Numpad3", "Numpad4", "Numpad5",
     "Numpad6", "Numpad7", "Numpad8", "Numpad9", "NumpadAdd", "NumpadDivide",
     "NumpadDecimal", "NumpadComma", "NumpadEnter", "NumpadEquals",
     "NumpadMultiply", "NumpadSubtract", "AbntC1", "AbntC2", "Apostrophe",
     "Apps", "Asterisk", "At", "Ax", "Backslash", "Calculator", "Capital",
     "Colon", "Comma", "Convert", "Equals", "Grave", "Kana", "Kanji", "LAlt",
     "LBracket", "LControl", "LShift", "LWin", "Mail", "MediaSelect",
     "MediaStop", "Minus", "Mute", "MyComputer", "NavigateForward",
     "NavigateBackward", "NextTrack", "NoConvert", "OEM102", "Period",
     "PlayPause", "Plus", "Power", "PrevTrack", "RAlt", "RBracket",
     "RControl", "RShift", "RWin", "Semicolon", "Slash", "Sleep", "Stop",
     "Sysrq", "Tab", "Underline", "Unlabeled", "VolumeDown", "VolumeUp",
     "Wake", "WebBack", "WebFavorites", "WebForward", "WebHome",
     "WebRefresh", "WebSearch", "WebStop", "Yen", "Copy", "Paste", "Cut"}

\* KeyboardInput::virtual_keycode is None.
NoKeycode == "None"

\* winit_keycode: the Code of a virtual key code.
winit_keycode(input) ==
    CASE input = "Key1" -> "Digit1"
      [] input = "Key2" -> "Digit2"
      [] input = "Key3" -> "Digit3"
      [] input = "Key4" -> "Digit4"
      [] input = "Key5" -> "Digit5"
      [] input = "Key6" -> "Digit6"
      [] input = "Key7" -> "Digit7"
      [] input = "Key8" -> "Digit8"
      [] input = "Key9" -> "Digit9"
      [] input = "Key0" -> "Digit0"
      [] input = "A" -> "KeyA"
      [] input = "B" -> "KeyB"
      [] input = "C" -> "KeyC"
      [] input = "D" -> "KeyD"
      [] input = "E" -> "KeyE"
      [] input = "F" -> "KeyF"
      [] input = "G" -> "KeyG"
      [] input = "H" -> "KeyH"
      [] input = "I" -> "KeyI"
      [] input = "J" -> "KeyJ"
      [] input = "K" -> "KeyK"
      [] input = "L" -> "KeyL"
      [] input = "M" -> "KeyM"
      [] input = "N" -> "KeyN"
      [] input = "O" -> "KeyO"
      [] input = "P" -> "KeyP"
      [] input = "Q" -> "KeyQ"
      [] input = "R" -> "KeyR"
      [] input = "S" -> "KeyS"
      [] input = "T" -> "KeyT"
      [] input = "U" -> "KeyU"
      [] input = "V" -> "KeyV"
      [] input = "W" -> "KeyW"
      [] input = "X" -> "KeyX"
      [] input = "Y" -> "KeyY"
      [] input = "Z" -> "KeyZ"
      [] input = "Escape" -> "Escape"
      [] input = "F1" -> "F1"
      [] input = "F2" -> "F2"
      [] input = "F3" -> "F3"
      [] input = "F4" -> "F4"
      [] input = "F5" -> "F5"
      [] input = "F6" -> "F6"
      [] input = "F7" -> "F7"
      [] input = "F8" -> "F8"
      [] input = "F9" -> "F9"
      [] input = "F10" -> "F10"
      [] input = "F11" -> "F11"
      [] input = "F12" -> "F12"
      [] input = "F13" -> "Unidentified"
      [] input = "F14" -> "Unidentified"
      [] input = "F15" -> "Unidentified"
      [] input = "F16" -> "Unidentified"
      [] input = "F17" -> "Unidentified"
      [] input = "F18" -> "Unidentified"
      [] input = "F19" -> "Unidentified"
      [] input = "F20" -> "Unidentified"
      [] input = "F21" -> "Unidentified"
      [] input = "F22" -> "Unidentified"
      [] input = "F23" -> "Unidentified"
      [] input = "F24" -> "Unidentified"
      [] input = "Snapshot" -> "Unidentified"
      [] input = "Scroll" -> "ScrollLock"
      [] input = "Pause" -> "Pause"
      [] input = "Insert" -> "Insert"
      [] input = "Home" -> "Home"
      [] input = "Delete" -> "Delete"
      [] input = "End" -> "End"
      [] input = "PageDown" -> "PageDown"
      [] input = "PageUp" -> "PageUp"
      [] input = "Left" -> "ArrowLeft"
      [] input = "Up" -> "ArrowUp"
      [] input = "Right" -> "ArrowRight"
      [] input = "Down" -> "ArrowDown"
      [] input = "Back" -> "BrowserBack"
      [] input = "Return" -> "Enter"
      [] input = "Space" -> "Space"
      [] input = "Compose" -> "Unidentified"
      [] input = "Caret" -> "Unidentified"
      [] input = "Numlock" -> "NumLock"
      [] input = "Numpad0" -> "Numpad0"
      [] input = "Numpad1" -> "Numpad1"
      [] input = "Numpad2" -> "Numpad2"
      [] input = "Numpad3" -> "Numpad3"
      [] input = "Numpad4" -> "Numpad4"
      [] input = "Numpad5" -> "Numpad5"
      [] input = "Numpad6" -> "Numpad6"
      [] input = "Numpad7" -> "Numpad7"
      [] input = "Numpad8" -> "Numpad8"
      [] input = "Numpad9" -> "Numpad9"
      [] input = "NumpadAdd" -> "NumpadAdd"
      [] input = "NumpadDivide" -> "NumpadDivide"
      [] input = "NumpadDecimal" -> "NumpadDecimal"
      [] input = "NumpadComma" -> "NumpadComma"
      [] input = "NumpadEnter" -> "NumpadEnter"
      [] input = "NumpadEquals" -> "NumpadEqual"
      [] input = "NumpadMultiply" -> "NumpadMultiply"
      [] input = "NumpadSubtract" -> "NumpadSubtract"
      [] input = "AbntC1" -> "Unidentified"
      [] input = "AbntC2" -> "Unidentified"
      [] input = "Apostrophe" -> "Quote"
      [] input = "Apps" -> "Unidentified"
      [] input = "Asterisk" -> "Unidentified"
      [] input = "At" -> "Unidentified"
      [] input = "Ax" -> "Unidentified"
      [] input = "Backslash" -> "Backslash"
      [] input = "Calculator" -> "Unidentified"
      [] input = "Capital" -> "Unidentified"
      [] input = "Colon" -> "Unidentified"
      [] input = "Comma" -> "Comma"
      [] input = "Convert" -> "Convert"
      [] input = "Equals" -> "Equal"
      [] input = "Grave" -> "Backquote"
      [] input = "Kana" -> "KanaMode"
      [] input = "Kanji" -> "Katakana"
      [] input = "LAlt" -> "AltLeft"
      [] input = "LBracket" -> "BracketLeft"
      [] input = "LControl" -> "ControlLeft"
      [] input = "LShift" -> "ShiftLeft"
      [] input = "LWin" -> "MetaLeft"
      [] input = "Mail" -> "LaunchMail"
      [] input = "MediaSelect" -> "MediaSelect"
      [] input = "MediaStop" -> "MediaStop"
      [] input = "Minus" -> "Minus"
      [] input = "Mute" -> "AudioVolumeMute"
      [] input = "MyComputer" -> "Unidentified"
      [] input = "NavigateForward" -> "BrowserForward"
      [] input = "NavigateBackward" -> "BrowserBack"
      [] input = "NextTrack" -> "MediaTrackNext"
      [] input = "NoConvert" -> "NonConvert"
      [] input = "OEM102" -> "Unidentified"
      [] input = "Period" -> "Period"
      [] input = "PlayPause" -> "MediaPlayPause"
      [] input = "Plus" -> "Unidentified"
      [] input = "Power" -> "Power"
      [] input = "PrevTrack" -> "MediaTrackPrevious"
      [] input = "RAlt" -> "AltRight"
      [] input = "RBracket" -> "BracketRight"
      [] input = "RControl" -> "ControlRight"
      [] input = "RShift" -> "ShiftRight"
      [] input = "RWin" -> "MetaRight"
      [] input = "Semicolon" -> "Semicolon"
      [] input = "Slash" -> "Slash"
      [] input = "Sleep" -> "Sleep"
      [] input = "Stop" -> "MediaStop"
      [] input = "Sysrq" -> "Unidentified"
      [] input = "Tab" -> "Tab"
      [] input = "Underline" -> "Unidentified"
      [] input = "Unlabeled" -> "Unidentified"
      [] input = "VolumeDown" -> "AudioVolumeDown"
      [] input = "VolumeUp" -> "AudioVolumeUp"
      [] input = "Wake" -> "WakeUp"
      [] input = "WebBack" -> "BrowserBack"
      [] input = "WebFavorites" -> "BrowserFavorites"
      [] input = "WebForward" -> "BrowserForward"
      [] input = "WebHome" -> "BrowserHome"
      [] input = "WebRefresh" -> "BrowserRefresh"
      [] input = "WebSearch" -> "BrowserSearch"
      [] input = "WebStop" -> "BrowserStop"
      [] input = "Yen" -> "IntlYen"
      [] input = "Copy" -> "Copy"
      [] input = "Paste" -> "Paste"
      [] input = "Cut" -> "Cut"

\* The match of winit_key on the virtual key code.  The grave accent, which a
\* string of this notation cannot hold, is written "U+0060".
winit_key_match(key, shift) ==
    CASE key = "Key1" -> IF ~shift THEN Character("1") ELSE Character("!")
      [] key = "Key2" -> IF ~shift THEN Character("2") ELSE Character("@")
      [] key = "Key3" -> IF ~shift THEN Character("3") ELSE Character("#")
      [] key = "Key4" -> IF ~shift THEN Character("4") ELSE Character("$")
      [] key = "Key5" -> IF ~shift THEN Character("5") ELSE Character("%")
      [] key = "Key6" -> IF ~shift THEN Character("6") ELSE Character("^")
      [] key = "Key7" -> IF ~shift THEN Character("7") ELSE Character("&")
      [] key = "Key8" -> IF ~shift THEN Character("8") ELSE Character("*")
      [] key = "Key9" -> IF ~shift THEN Character("9") ELSE Character("(")
      [] key = "Key0" -> IF ~shift THEN Character("0") ELSE Character(")")
      [] key = "A" -> IF ~shift THEN Character("a") ELSE Character("A")
      [] key = "B" -> IF ~shift THEN Character("b") ELSE Character("B")
      [] key = "C" -> IF ~shift THEN Character("c") ELSE Character("C")
      [] key = "D" -> IF ~shift THEN Character("d") ELSE Character("D")
      [] key = "E" -> IF ~shift THEN Character("e") ELSE Character("E")
      [] key = "F" -> IF ~shift THEN Character("f") ELSE Character("F")
      [] key = "G" -> IF ~shift THEN Character("g") ELSE Character("G")
      [] key = "H" -> IF ~shift THEN Character("h") ELSE Character("H")
      [] key = "I" -> IF ~shift THEN Character("i") ELSE Character("I")
      [] key = "J" -> IF ~shift THEN Character("j") ELSE Character("J")
      [] key = "K" -> IF ~shift THEN Character("k") ELSE Character("K")
      [] key = "L" -> IF ~shift THEN Character("l") ELSE Character("L")
      [] key = "M" -> IF ~shift THEN Character("m") ELSE Character("M")
      [] key = "N" -> IF ~shift THEN Character("n") ELSE Character("N")
      [] key = "O" -> IF ~shift THEN Character("o") ELSE Character("O")
      [] key = "P" -> IF ~shift THEN Character("p") ELSE Character("P")
      [] key = "Q" -> IF ~shift THEN Character("q") ELSE Character("Q")
      [] key = "R" -> IF ~shift THEN Character("r") ELSE Character("R")
      [] key = "S" -> IF ~shift THEN Character("s") ELSE Character("S")
      [] key = "T" -> IF ~shift THEN Character("t") ELSE Character("T")
      [] key = "U" -> IF ~shift THEN Character("u") ELSE Character("U")
      [] key = "V" -> IF ~shift THEN Character("v") ELSE Character("V")
      [] key = "W" -> IF ~shift THEN Character("w") ELSE Character("W")
      [] key = "X" -> IF ~shift THEN Character("x") ELSE Character("X")
      [] key = "Y" -> IF ~shift THEN Character("y") ELSE Character("Y")
      [] key = "Z" -> IF ~shift THEN Character("z") ELSE Character("Z")
      [] key = "Escape" -> Named("Escape")
      [] key = "F1" -> Named("F1")
      [] key = "F2" -> Named("F2")
      [] key = "F3" -> Named("F3")
      [] key = "F4" -> Named("F4")
      [] key = "F5" -> Named("F5")
      [] key = "F6" -> Named("F6")
      [] key = "F7" -> Named("F7")
      [] key = "F8" -> Named("F8")
      [] key = "F9" -> Named("F9")
      [] key = "F10" -> Named("F10")
      [] key = "F11" -> Named("F11")
      [] key = "F12" -> Named("F12")
      [] key = "F13" -> Named("Unidentified")
      [] key = "F14" -> Named("Unidentified")
      [] key = "F15" -> Named("Unidentified")
      [] key = "F16" -> Named("Unidentified")
      [] key = "F17" -> Named("Unidentified")
      [] key = "F18" -> Named("Unidentified")
      [] key = "F19" -> Named("Unidentified")
      [] key = "F20" -> Named("Unidentified")
      [] key = "F21" -> Named("Unidentified")
      [] key = "F22" -> Named("Unidentified")
      [] key = "F23" -> Named("Unidentified")
      [] key = "F24" -> Named("Unidentified")
      [] key = "Snapshot" -> Named("Unidentified")
      [] key = "Scroll" -> Named("Unidentified")
      [] key = "Pause" -> Named("Pause")
      [] key = "Insert" -> Named("Insert")
      [] key = "Home" -> Named("Home")
      [] key = "Delete" -> Named("Delete")
      [] key = "End" -> Named("End")
      [] key = "PageDown" -> Named("PageDown")
      [] key = "PageUp" -> Named("PageUp")
      [] key = "Left" -> Named("ArrowLeft")
      [] key = "Up" -> Named("ArrowUp")
      [] key = "Right" -> Named("ArrowRight")
      [] key = "Down" -> Named("ArrowDown")
      [] key = "Back" -> Named("Backspace")
      [] key = "Return" -> Named("Enter")
      [] key = "Space" -> Character(" ")
      [] key = "Compose" -> Named("Compose")
      [] key = "Caret" -> Named("Unidentified")
      [] key = "Numlock" -> Named("NumLock")
      [] key = "Numpad0" -> Named("Unidentified")
      [] key = "Numpad1" -> Named("Unidentified")
      [] key = "Numpad2" -> Named("Unidentified")
      [] key = "Numpad3" -> Named("Unidentified")
      [] key = "Numpad4" -> Named("Unidentified")
      [] key = "Numpad5" -> Named("Unidentified")
      [] key = "Numpad6" -> Named("Unidentified")
      [] key = "Numpad7" -> Named("Unidentified")
      [] key = "Numpad8" -> Named("Unidentified")
      [] key = "Numpad9" -> Named("Unidentified")
      [] key = "NumpadAdd" -> Named("Unidentified")
      [] key = "NumpadDivide" -> Named("Unidentified")
      [] key = "NumpadDecimal" -> Named("Unidentified")
      [] key = "NumpadComma" -> Named("Unidentified")
      [] key = "NumpadEnter" -> Named("Enter")
      [] key = "NumpadEquals" -> Named("Unidentified")
      [] key = "NumpadMultiply" -> Named("Unidentified")
      [] key = "NumpadSubtract" -> Named("Unidentified")
      [] key = "AbntC1" -> Named("Unidentified")
      [] key = "AbntC2" -> Named("Unidentified")
      [] key = "Apostrophe" -> IF ~shift THEN Character("'") ELSE Character("\"")
      [] key = "Apps" -> Named("MediaApps")
      [] key = "Asterisk" -> Named("Unidentified")
      [] key = "At" -> Named("Unidentified")
      [] key = "Ax" -> Named("Unidentified")
      [] key = "Backslash" -> IF ~shift THEN Character("\\") ELSE Character("|")
      [] key = "Calculator" -> Named("Unidentified")
      [] key = "Capital" -> Named("CapsLock")
      [] key = "Colon" -> Named("Unidentified")
      [] key = "Comma" -> IF ~shift THEN Character(",") ELSE Character("<")
      [] key = "Convert" -> Named("Convert")
      [] key = "Equals" -> IF ~shift THEN Character("=") ELSE Character("+")
      [] key = "Grave" -> IF ~shift THEN Character("U+0060") ELSE Character("~")
      [] key = "Kana" -> Named("KanaMode")
      [] key = "Kanji" -> Named("KanjiMode")
      [] key = "LAlt" -> Named("Alt")
      [] key = "LBracket" -> IF ~shift THEN Character("[") ELSE Character("{")
      [] key = "LControl" -> Named("Control")
      [] key = "LShift" -> Named("Shift")
      [] key = "LWin" -> Named("Meta")
      [] key = "Mail" -> Named("MailSend")
      [] key = "MediaSelect" -> Named("MediaApps")
      [] key = "MediaStop" -> Named("MediaStop")
      [] key = "Minus" -> IF ~shift THEN Character("-") ELSE Character("_")
      [] key = "Mute" -> Named("AudioVolumeMute")
      [] key = "MyComputer" -> Named("Unidentified")
      [] key = "NavigateForward" -> Named("BrowserForward")
      [] key = "NavigateBackward" -> Named("BrowserBack")
      [] key = "NextTrack" -> Named("MediaTrackNext")
      [] key = "NoConvert" -> Named("NonConvert")
      [] key = "OEM102" -> Named("Unidentified")
      [] key = "Period" -> IF ~shift THEN Character(".") ELSE Character(">")
      [] key = "PlayPause" -> Named("MediaPlayPause")
      [] key = "Plus" -> Named("Unidentified")
      [] key = "Power" -> Named("Power")
      [] key = "PrevTrack" -> Named("MediaTrackPrevious")
      [] key = "RAlt" -> Named("Alt")
      [] key = "RBracket" -> IF ~shift THEN Character("]") ELSE Character("}")
      [] key = "RControl" -> Named("Control")
      [] key = "RShift" -> Named("Shift")
      [] key = "RWin" -> Named("Meta")
      [] key = "Semicolon" -> IF ~shift THEN Character(";") ELSE Character(":")
      [] key = "Slash" -> IF ~shift THEN Character("/") ELSE Character("?")
      [] key = "Sleep" -> Named("Unidentified")
      [] key = "Stop" -> Named("MediaStop")
      [] key = "Sysrq" -> Named("Unidentified")
      [] key = "Tab" -> Named("Tab")
      [] key = "Underline" -> Named("Unidentified")
      [] key = "Unlabeled" -> Named("Unidentified")
      [] key = "VolumeDown" -> Named("AudioVolumeDown")
      [] key = "VolumeUp" -> Named("AudioVolumeUp")
      [] key = "Wake" -> Named("WakeUp")
      [] key = "WebBack" -> Named("BrowserBack")
      [] key = "WebFavorites" -> Named("BrowserFavorites")
      [] key = "WebForward" -> Named("BrowserForward")
      [] key = "WebHome" -> Named("BrowserHome")
      [] key = "WebRefresh" -> Named("BrowserRefresh")
      [] key = "WebSearch" -> Named("BrowserSearch")
      [] key = "WebStop" -> Named("BrowserStop")
      [] key = "Yen" -> Named("Unidentified")
      [] key = "Copy" -> Named("Copy")
      [] key = "Paste" -> Named("Paste")
      [] key = "Cut" -> Named("Cut")

winit_key_unshifted(input, shift) ==
    IF input /= NoKeycode
    THEN winit_key_match(input, FALSE)
    ELSE Named("Unidentified")

\* The result of input.virtual_keycode.unwrap() on None.
winit_key_unwrap(input, shift) ==
    IF input /= NoKeycode
    THEN winit_key_match(input, shift)
    ELSE Named("panic")

\* winit_key: the Key of a keyboard input, given whether shift is held;
\* Unidentified when the input has no virtual key code.
winit_key(input, shift) ==
    IF input /= NoKeycode
    THEN winit_key_match(input, shift)
    ELSE Named("Unidentified")

\* ------------------------------------------------------------ the run loop
TimerInstantNow(deadline) == now

\* The time at which a timer of the given duration, handled now, is due:
\* std::time::Instant::now() + deadline.
TimerInstant(deadline) == now + deadline

NextWaitForever(m) == Wait

\* What the loop waits for once the pending timers are m.
NextWait(m) == IF DOMAIN m /= {} THEN WaitUntil(FirstKey(m)) ELSE Wait

DispatchTimerToFirstWindow(instant, entry) ==
    timer_log' = Append(timer_log,
        [token |-> entry.token, window_id |-> Min(Windows),
         deadline |-> instant])

\* state.do_winit_window_event(Event::Timer(token), &window_id)
DispatchTimer(instant, entry) ==
    timer_log' = Append(timer_log,
        [token |-> entry.token, window_id |-> entry.window_id,
         deadline |-> instant])

\* Event::NewEvents(StartCause::Init)
NewEventsInit ==
    /\ phase = "Init"
    /\ control_flow' = SetControlFlow(Wait)
    /\ phase' = "Processing"
    /\ UNCHANGED <<now, timer_tokens, queue, windows, pending_windows,
                   workload, token_vars, hist_vars>>
    /\ UNCHANGED ext_vars

\* Event::NewEvents(StartCause::ResumeTimeReached { requested_resume })
ResumeTimeReached ==
    /\ phase = "Waiting"
    /\ control_flow.kind = "WaitUntil"
    /\ now >= control_flow.at
    /\ LET requested_resume == control_flow.at
           removed == IF requested_resume \in DOMAIN timer_tokens
                      THEN MapRemove(timer_tokens, requested_resume)
                      ELSE timer_tokens
       IN  /\ IF requested_resume \in DOMAIN timer_tokens
              THEN DispatchTimer(requested_resume, timer_tokens[requested_resume])
              ELSE UNCHANGED timer_log
           /\ timer_tokens' = removed
           /\ control_flow' = SetControlFlow(NextWait(removed))
    /\ phase' = "Processing"
    /\ UNCHANGED <<now, queue, windows, pending_windows, workload,
                   token_vars, timer_requests, idle_sent, idle_log>>
    /\ UNCHANGED ext_vars

\* Event::NewEvents(StartCause::WaitCancelled { .. }): the wait ended because
\* an event arrived before the time waited for.
WaitCancelled ==
    /\ phase = "Waiting"
    /\ ~(control_flow.kind = "WaitUntil" /\ now >= control_flow.at)
    /\ phase' = "Processing"
    /\ UNCHANGED <<now, control_flow, timer_tokens, queue, windows,
                   pending_windows, workload, token_vars, hist_vars>>
    /\ UNCHANGED ext_vars

\* Event::UserEvent(WinitEvent::Timer(window_id, token, deadline))
UserTimer ==
    /\ phase = "Processing"
    /\ queue /= <<>>
    /\ Head(queue).type = "Timer"
    /\ LET msg == Head(queue)
           instant == TimerInstant(msg.deadline)
           inserted == MapInsert(timer_tokens, instant,
                          [window_id |-> msg.window_id, token |-> msg.token,
                           due |-> msg.due])
       IN  /\ timer_tokens' = inserted
           /\ control_flow' = SetControlFlow(WaitUntil(FirstKey(inserted)))
    /\ queue' = Tail(queue)
    /\ UNCHANGED <<now, phase, windows, pending_windows, workload,
                   token_vars, hist_vars>>
    /\ UNCHANGED ext_vars

\* Event::UserEvent(WinitEvent::Idle(token)): state.idle(token), on the loop's thread.
UserIdle ==
    /\ phase = "Processing"
    /\ queue /= <<>>
    /\ Head(queue).type = "Idle"
    /\ idle_log' = Append(idle_log,
          [token |-> Head(queue).token, id |-> Head(queue).id,
           handle |-> Head(queue).handle, thread |-> LoopThread])
    /\ queue' = Tail(queue)
    /\ UNCHANGED <<now, phase, control_flow, timer_tokens, windows,
                   pending_windows, workload, token_vars,
                   timer_requests, timer_log, idle_sent>>
    /\ UNCHANGED ext_vars

\* Event::UserEvent(WinitEvent::NewWindow): state.create_new_windows(event_loop)
UserNewWindow ==
    /\ phase = "Processing"
    /\ queue /= <<>>
    /\ Head(queue).type = "NewWindow"
    /\ windows' = windows \cup pending_windows
    /\ pending_windows' = {}
    /\ queue' = Tail(queue)
    /\ UNCHANGED <<now, phase, control_flow, timer_tokens, workload,
                   token_vars, hist_vars>>
    /\ UNCHANGED ext_vars

\* ------------------------------------------------ occurrences on a window
\* What winit reports: the modifier keys held (ModifiersState), the mouse
\* buttons, the positions of the cursor, the keys.
RawModifiers == {{}, {"ctrl", "alt"}, {"shift", "logo"}}
RawButtons == {"Left", "Middle", "Other"}
ElementStates == {"Pressed", "Released"}
Positions == {2, 6}
ScaleFactors == {1, 2}
InputKeycodes == {"A", "NumpadEnter", "RShift", NoKeycode}

MouseEventTypes == {"MouseDown", "MouseUp", "MouseMove", "Wheel"}
KeyEventTypes == {"KeyDown", "KeyUp"}

ModifiersOfNoMeta(winit_mods) ==
    LET m0 == Modifiers_empty
        m1 == IF "shift" \in winit_mods THEN Modifiers_set(m0, SHIFT, TRUE) ELSE m0
        m2 == IF "ctrl" \in winit_mods THEN Modifiers_set(m1, CONTROL, TRUE) ELSE m1
        m3 == IF "alt" \in winit_mods THEN Modifiers_set(m2, ALT, TRUE) ELSE m2
    IN  m3

\* The Modifiers built from the ModifiersState of a ModifiersChanged
\* occurrence: empty, then one set call per key that is held.
ModifiersOf(winit_mods) ==
    LET m0 == Modifiers_empty
        m1 == IF "shift" \in winit_mods THEN Modifiers_set(m0, SHIFT, TRUE) ELSE m0
        m2 == IF "ctrl" \in winit_mods THEN Modifiers_set(m1, CONTROL, TRUE) ELSE m1
        m3 == IF "alt" \in winit_mods THEN Modifiers_set(m2, ALT, TRUE) ELSE m2
        m4 == IF "logo" \in winit_mods THEN Modifiers_set(m3, META, TRUE) ELSE m3
    IN  m4

\* The MouseButton of a winit::event::MouseButton.
MouseButtonOf(button) ==
    CASE button = "Left" -> "Left"
      [] button = "Right" -> "Right"
      [] button = "Middle" -> "Middle"
      [] button = "Other" -> "None"

\* MouseButtons::insert and MouseButtons::remove: MouseButton::None is no
\* member of a MouseButtons set.
MouseButtons_insert(buttons, button) ==
    IF button = "None" THEN buttons ELSE buttons \cup {button}
MouseButtons_remove(buttons, button) == buttons \ {button}

\* MouseEvent { pos, window_pos: pos, buttons, mods, count: 0, focus: false,
\* button, wheel_delta }, in the Event variant given.
MouseEventOf(type, w, pos, buttons, m, button) ==
    [NoEvent EXCEPT !.type = type, !.window_id = w, !.pos = pos,
                    !.buttons = buttons, !.mods = m, !.button = button]

\* KeyEvent::default() with state, key, code, mods and repeat assigned; the
\* location stays that of the default, Location::Standard.
KeyEventOf(w, key_state, key, code, m, repeat) ==
    [NoEvent EXCEPT !.type = IF key_state = "Down" THEN "KeyDown" ELSE "KeyUp",
                    !.window_id = w, !.state = key_state, !.key = key,
                    !.code = code, !.location = "Standard", !.mods = m,
                    !.repeat = repeat]

\* Option<T>
Some(v) == [some |-> TRUE, v |-> v]
None == [some |-> FALSE]

\* Option::unwrap_or, and the if let Some(mods) = .. else of the closure.
unwrap_or(opt, default) == IF opt.some THEN opt.v ELSE default

\* AppState::get_scale, get_mods, get_mouse_buttons and get_mouse_pos: what is
\* stored for the window, None for a window id AppState holds no window of.
get_mods_kept(w) == Some(mods[w])
get_scale(w) == IF w \in windows THEN Some(scale[w]) ELSE None
get_mods(w) == IF w \in windows THEN Some(mods[w]) ELSE None
get_mouse_buttons(w) == IF w \in windows THEN Some(mouse_buttons[w]) ELSE None
get_mouse_pos(w) == IF w \in windows THEN Some(mouse_pos[w]) ELSE None

\* MouseButtons::new() and Point::ZERO
MouseButtons_new == {}
Point_ZERO == 0

\* AppState::do_winit_window_event: the event goes to the handler of the
\* window; AppState keeps the position and the buttons of a mouse event, and the
\* scale factor of a size event that has one, as the state of the window, which
\* get_mouse_pos, get_mouse_buttons and get_scale return.  Nothing is kept for
\* a window id AppState holds no window of.
DoWinitWindowEvent(event) ==
    /\ dispatched' = event
    /\ event_count' = event_count + 1
    /\ mouse_pos' = IF event.type \in MouseEventTypes /\ event.window_id \in windows
                    THEN [mouse_pos EXCEPT ![event.window_id] = event.pos]
                    ELSE mouse_pos
    /\ mouse_buttons' = IF event.type \in MouseEventTypes /\ event.window_id \in windows
                        THEN [mouse_buttons EXCEPT ![event.window_id] = event.buttons]
                        ELSE mouse_buttons
    /\ scale' = IF event.type = "WindowSize" /\ event.window_id \in windows
                THEN [scale EXCEPT ![event.window_id] = event.scale]
                ELSE scale

\* The closure is called with a WindowEvent tagged with window id w.
Occurrence(w) ==
    /\ phase = "Processing"
    /\ workload.inputs > 0
    /\ workload' = [workload EXCEPT !.inputs = @ - 1]
    /\ occurrence_count' = occurrence_count + 1
    /\ UNCHANGED <<now, phase, control_flow, timer_tokens, queue, windows,
                   pending_windows, token_vars, hist_vars, idle_added,
                   callback_log, pure_call, win_vars>>

\* WindowEvent::ScaleFactorChanged { scale_factor, new_inner_size }
ScaleFactorChanged(w, scale_factor) ==
    /\ Occurrence(w)
    /\ DoWinitWindowEvent(
          [NoEvent EXCEPT !.type = "WindowSize", !.window_id = w,
                          !.scale = scale_factor])
    /\ UNCHANGED <<mods, last_mods, held>>

\* WindowEvent::Moved(pos)
Moved(w, pos) ==
    /\ Occurrence(w)
    /\ LET window_scale == unwrap_or(get_scale(w), 1)
       IN  DoWinitWindowEvent(
              [NoEvent EXCEPT !.type = "WindowMoved", !.window_id = w,
                              !.pos = pos \div window_scale])
    /\ UNCHANGED <<mods, last_mods, held>>

\* WindowEvent::Resized(size)
Resized(w) ==
    /\ Occurrence(w)
    /\ LET window_scale == unwrap_or(get_scale(w), 1)
       IN  DoWinitWindowEvent(
              [NoEvent EXCEPT !.type = "WindowSize", !.window_id = w,
                              !.scale = window_scale])
    /\ UNCHANGED <<mods, last_mods, held>>

\* state.set_mods(&window_id, mods): the modifiers of the window are replaced;
\* nothing is stored for a window id AppState holds no window of.
set_mods(w, m) == IF w \in windows THEN [mods EXCEPT ![w] = m] ELSE mods

ModifiersChangedKeeps(w, winit_mods) ==
    /\ Occurrence(w)
    /\ mods' = set_mods(w, Modifiers_bitor(mods[w], ModifiersOf(winit_mods)))
    /\ last_mods' = [last_mods EXCEPT ![w] = winit_mods]
    /\ UNCHANGED <<mouse_buttons, mouse_pos, held, event_count, dispatched, scale>>

\* WindowEvent::ModifiersChanged(winit_mods): state.set_mods(&window_id, mods)
ModifiersChanged(w, winit_mods) ==
    /\ Occurrence(w)
    /\ mods' = set_mods(w, ModifiersOf(winit_mods))
    /\ last_mods' = [last_mods EXCEPT ![w] = winit_mods]
    /\ UNCHANGED <<mouse_buttons, mouse_pos, held, event_count, dispatched, scale>>

\* WindowEvent::MouseWheel
MouseWheel(w) ==
    /\ Occurrence(w)
    /\ LET m == unwrap_or(get_mods(w), Modifiers_empty)
           buttons == unwrap_or(get_mouse_buttons(w), MouseButtons_new)
           pos == unwrap_or(get_mouse_pos(w), Point_ZERO)
       IN  DoWinitWindowEvent(MouseEventOf("Wheel", w, pos, buttons, m, "None"))
    /\ UNCHANGED <<mods, last_mods, held>>

\* WindowEvent::CursorMoved { position, .. }
CursorMoved(w, position) ==
    /\ Occurrence(w)
    /\ LET window_scale == unwrap_or(get_scale(w), 1)
           m == unwrap_or(get_mods(w), Modifiers_empty)
           pos == position \div window_scale
           buttons == unwrap_or(get_mouse_buttons(w), MouseButtons_new)
       IN  DoWinitWindowEvent(MouseEventOf("MouseMove", w, pos, buttons, m, "None"))
    /\ UNCHANGED <<mods, last_mods, held>>

MouseInputNoRemove(w, button, mouse_state) ==
    /\ Occurrence(w)
    /\ LET m == unwrap_or(get_mods(w), Modifiers_empty)
           pos == unwrap_or(get_mouse_pos(w), Point_ZERO)
           stored == unwrap_or(get_mouse_buttons(w), MouseButtons_new)
           b == MouseButtonOf(button)
           buttons == IF mouse_state = "Pressed"
                      THEN MouseButtons_insert(stored, b)
                      ELSE stored
       IN  DoWinitWindowEvent(
              MouseEventOf(IF mouse_state = "Pressed" THEN "MouseDown" ELSE "MouseUp",
                           w, pos, buttons, m, b))
    /\ held' = [held EXCEPT ![w] = IF mouse_state = "Pressed"
                                   THEN @ \cup {button} ELSE @ \ {button}]
    /\ UNCHANGED <<mods, last_mods>>

\* WindowEvent::MouseInput { state: mouse_state, button, .. }
MouseInput(w, button, mouse_state) ==
    /\ Occurrence(w)
    /\ LET m == unwrap_or(get_mods(w), Modifiers_empty)
           pos == unwrap_or(get_mouse_pos(w), Point_ZERO)
           stored == unwrap_or(get_mouse_buttons(w), MouseButtons_new)
           b == MouseButtonOf(button)
           buttons == IF mouse_state = "Pressed"
                      THEN MouseButtons_insert(stored, b)
                      ELSE MouseButtons_remove(stored, b)
       IN  DoWinitWindowEvent(
              MouseEventOf(IF mouse_state = "Pressed" THEN "MouseDown" ELSE "MouseUp",
                           w, pos, buttons, m, b))
    /\ held' = [held EXCEPT ![w] = IF mouse_state = "Pressed"
                                   THEN @ \cup {button} ELSE @ \ {button}]
    /\ UNCHANGED <<mods, last_mods>>

\* WindowEvent::KeyboardInput { event, .. }.  The key is winit_key of the
\* input, with the shift flag of the window's modifiers; the code is the
\* physical key of the input, the Code winit_keycode names.
KeyboardInput(w, input, element_state, repeat) ==
    /\ Occurrence(w)
    /\ LET m == unwrap_or(get_mods(w), Modifiers_empty)
           key_state == IF element_state = "Pressed" THEN "Down" ELSE "Up"
           code == IF input = NoKeycode THEN "Unidentified" ELSE winit_keycode(input)
       IN  DoWinitWindowEvent(
              KeyEventOf(w, key_state, winit_key(input, Modifiers_shift(m)),
                         code, m, repeat))
    /\ UNCHANGED <<mods, last_mods, held>>

\* WindowEvent::Focused, as every WindowEvent the match has no arm for: _ => ().
Focused(w) ==
    /\ Occurrence(w)
    /\ UNCHANGED <<mods, mouse_buttons, mouse_pos, last_mods, held,
                   event_count, dispatched, scale>>

\* state.request_close_wint_window(&window_id): the handler of the window gets
\* the request and either closes the window or leaves it open.
RequestCloseWindow(w, closes) == IF closes THEN windows \ {w} ELSE windows

CloseRequestedExits(w, closes) ==
    /\ phase = "Processing"
    /\ w \in windows
    /\ IF closes THEN workload.closes > 0 ELSE workload.inputs > 0
    /\ workload' = IF closes THEN [workload EXCEPT !.closes = @ - 1]
                   ELSE [workload EXCEPT !.inputs = @ - 1]
    /\ occurrence_count' = occurrence_count + 1
    /\ event_count' = event_count + 1
    /\ dispatched' = [NoEvent EXCEPT !.type = "RequestClose", !.window_id = w,
                                     !.closes = closes]
    /\ windows' = RequestCloseWindow(w, closes)
    /\ control_flow' = IF ~TargetMacos THEN SetControlFlow(Exit) ELSE control_flow
    /\ UNCHANGED <<now, phase, timer_tokens, queue, pending_windows,
                   token_vars, hist_vars, idle_added, callback_log, mods,
                   mouse_buttons, mouse_pos, last_mods, held, pure_call,
                   scale, win_vars>>

\* Event::WindowEvent { window_id, event: WindowEvent::CloseRequested }
CloseRequested(w, closes) ==
    /\ phase = "Processing"
    /\ w \in windows
    /\ IF closes THEN workload.closes > 0 ELSE workload.inputs > 0
    /\ workload' = IF closes THEN [workload EXCEPT !.closes = @ - 1]
                   ELSE [workload EXCEPT !.inputs = @ - 1]
    /\ occurrence_count' = occurrence_count + 1
    /\ event_count' = event_count + 1
    /\ dispatched' = [NoEvent EXCEPT !.type = "RequestClose", !.window_id = w,
                                     !.closes = closes]
    /\ windows' = RequestCloseWindow(w, closes)
    /\ control_flow' = IF ~TargetMacos /\ Cardinality(windows') = 0
                       THEN SetControlFlow(Exit)
                       ELSE control_flow
    /\ UNCHANGED <<now, phase, timer_tokens, queue, pending_windows,
                   token_vars, hist_vars, idle_added, callback_log, mods,
                   mouse_buttons, mouse_pos, last_mods, held, pure_call,
                   scale, win_vars>>

\* Event::MainEventsCleared and Event::RedrawEventsCleared: the iteration is
\* over, every user event that was pending has been handled; the loop waits,
\* or leaves if it was asked to exit.
EventsCleared ==
    /\ phase = "Processing"
    /\ queue = <<>>
    /\ phase' = IF control_flow.kind = "Exit" THEN "Exiting" ELSE "Waiting"
    /\ UNCHANGED <<now, control_flow, timer_tokens, queue, windows,
                   pending_windows, workload, token_vars, hist_vars>>
    /\ UNCHANGED ext_vars

\* Event::LoopDestroyed: the last call of the closure; run ends the process.
\* User events sent since the iteration's events were cleared are never handled.
LoopDestroyed ==
    /\ phase = "Exiting"
    /\ phase' = "Stopped"
    /\ UNCHANGED <<now, control_flow, timer_tokens, queue, windows,
                   pending_windows, workload, token_vars, hist_vars>>
    /\ UNCHANGED ext_vars

LoopStep ==
    \/ NewEventsInit
    \/ ResumeTimeReached
    \/ WaitCancelled
    \/ UserTimer
    \/ UserIdle
    \/ UserNewWindow
    \/ EventsCleared
    \/ LoopDestroyed

Next ==
    \/ Tick
    \/ \E w \in Windows, d \in Durations : RequestTimer(w, d)
    \/ \E t \in Threads, token \in IdleTokens : ScheduleIdle(t, token)
    \/ \E w \in Windows : RequestNewWindow(w)
    \/ \E w \in Windows, closes \in BOOLEAN : CloseRequested(w, closes)
    \/ LoopStep

Spec == Init /\ [][Next]_vars

\* The runs in which idle tokens are scheduled, with the loop's thread being
\* scheduled: a call of the closure that is due is made.
IdleInit == Init /\ workload.idles > 0

FairSpec == IdleInit /\ [][Next]_vars /\ WF_vars(LoopStep)

TokenNext ==
    \/ \E t \in TokenThreads, k \in TokenKinds : FetchNext(t, k)
    \/ \E t \in TokenThreads : ReturnNext(t)
    \/ AddTextField

\* The calls of next() and add_text_field do not depend on what is asked of the
\* loop: one workload is enough.
TokenInit == Init /\ workload.idles = 0

TokenSpec == TokenInit /\ [][TokenNext]_vars

\* ---------------------------------------------------------------- add_idle
\* IdleHandle::add_idle(callback), called on thread t: the body is empty, the
\* callback is dropped.
AddIdle(t) ==
    /\ Running
    /\ idle_added < MaxIdle
    /\ idle_added' = idle_added + 1
    /\ UNCHANGED <<loop_vars, token_vars, hist_vars, callback_log, input_vars,
                   pure_call, win_vars>>

\* The runs in which callbacks are added, beside idle tokens, while windows are
\* closed.
AddIdleInit ==
    /\ LoopInit
    /\ workload = [timers |-> 0, idles |-> MaxIdle, new_windows |-> 0,
                   closes |-> 2, inputs |-> 0]
    /\ pure_call = NoCall

AddIdleNext ==
    \/ \E t \in Threads : AddIdle(t)
    \/ \E t \in Threads, token \in IdleTokens : ScheduleIdle(t, token)
    \/ \E w \in Windows : CloseRequested(w, TRUE)
    \/ NewEventsInit
    \/ WaitCancelled
    \/ UserIdle
    \/ EventsCleared
    \/ LoopDestroyed

AddIdleSpec == AddIdleInit /\ [][AddIdleNext]_vars

\* ------------------------------------------------- the occurrences of a run
\* The occurrences winit reports of the windows AppState holds.
InputInit ==
    /\ LoopInit
    /\ workload = InputWorkload
    /\ pure_call = NoCall

InputNext ==
    \/ NewEventsInit
    \/ WaitCancelled
    \/ EventsCleared
    \/ LoopDestroyed
    \/ \E w \in windows, scale_factor \in ScaleFactors :
          ScaleFactorChanged(w, scale_factor)
    \/ \E w \in windows, pos \in Positions : Moved(w, pos)
    \/ \E w \in windows : Resized(w)
    \/ \E w \in windows, winit_mods \in RawModifiers : ModifiersChanged(w, winit_mods)
    \/ \E w \in windows : MouseWheel(w)
    \/ \E w \in windows, position \in Positions : CursorMoved(w, position)
    \/ \E w \in windows, button \in RawButtons, mouse_state \in ElementStates :
          MouseInput(w, button, mouse_state)
    \/ \E w \in windows, input \in InputKeycodes, element_state \in ElementStates,
          repeat \in BOOLEAN : KeyboardInput(w, input, element_state, repeat)
    \/ \E w \in windows : Focused(w)
    \/ \E w \in Windows, closes \in BOOLEAN : CloseRequested(w, closes)

InputSpec == InputInit /\ [][InputNext]_vars

\* ------------------------------- occurrences of windows AppState holds not
\* The runs in which winit reports occurrences with any window id, also one
\* AppState never held a window of or holds none of any more, while a timer is
\* pending.
StrayInit ==
    /\ LoopInit
    /\ workload = [timers |-> 1, idles |-> 0, new_windows |-> 0, closes |-> 2,
                   inputs |-> 2]
    /\ pure_call = NoCall

StrayNext ==
    \/ \E w \in Windows, d \in Durations : RequestTimer(w, d)
    \/ NewEventsInit
    \/ ResumeTimeReached
    \/ WaitCancelled
    \/ UserTimer
    \/ EventsCleared
    \/ LoopDestroyed
    \/ \E w \in Windows, scale_factor \in ScaleFactors :
          ScaleFactorChanged(w, scale_factor)
    \/ \E w \in Windows, pos \in Positions : Moved(w, pos)
    \/ \E w \in Windows : Resized(w)
    \/ \E w \in Windows, winit_mods \in RawModifiers : ModifiersChanged(w, winit_mods)
    \/ \E w \in Windows : MouseWheel(w)
    \/ \E w \in Windows, position \in Positions : CursorMoved(w, position)
    \/ \E w \in Windows, button \in RawButtons, mouse_state \in ElementStates :
          MouseInput(w, button, mouse_state)
    \/ \E w \in Windows, input \in InputKeycodes, element_state \in ElementStates :
          KeyboardInput(w, input, element_state, FALSE)
    \/ \E w \in Windows : CloseRequested(w, TRUE)

StraySpec == StrayInit /\ [][StrayNext]_vars

\* ------------------------------------------------------------------ launch
\* self.windows, in the order of the with_window calls.
LaunchDescs == <<1, 2>>

\* One iteration of for desc in self.windows { let window =
\* desc.build_native(&mut state, &event_loop)?; window.show(); }: the window of
\* the next description is built and shown, or, build_native failing, launch
\* returns the error; state goes out of scope with the windows it holds.
BuildNative(ok) ==
    /\ phase = "Launching"
    /\ launch.descs /= <<>>
    /\ LET desc == Head(launch.descs)
       IN  IF ok
           THEN /\ windows' = windows \cup {desc}
                /\ launch' = [launch EXCEPT !.descs = Tail(@),
                                            !.created = @ \cup {desc},
                                            !.shown = @ \cup {desc}]
                /\ phase' = phase
           ELSE /\ windows' = {}
                /\ launch' = [launch EXCEPT !.result = "Err"]
                /\ phase' = "Returned"
    /\ UNCHANGED <<now, control_flow, timer_tokens, queue, pending_windows,
                   workload, token_vars, hist_vars, idle_added, callback_log,
                   input_vars, pure_call, close_calls, native_state, last_set>>

\* event_loop.run(..) is called once every window is built.
RunLoop ==
    /\ phase = "Launching"
    /\ launch.descs = <<>>
    /\ phase' = "Init"
    /\ UNCHANGED <<now, control_flow, timer_tokens, queue, windows,
                   pending_windows, workload, token_vars, hist_vars, ext_vars>>

\* The state when launch is called.
LaunchInit ==
    /\ AppInit
    /\ phase = "Launching"
    /\ windows = {}
    /\ launch = [descs |-> LaunchDescs, created |-> {}, shown |-> {},
                 result |-> "-"]
    /\ workload = InputWorkload
    /\ pure_call = NoCall

LaunchNext ==
    \/ \E ok \in BOOLEAN : BuildNative(ok)
    \/ RunLoop
    \/ NewEventsInit
    \/ WaitCancelled
    \/ EventsCleared
    \/ LoopDestroyed
    \/ \E w \in windows, winit_mods \in RawModifiers : ModifiersChanged(w, winit_mods)
    \/ \E w \in windows, input \in InputKeycodes, element_state \in ElementStates,
          repeat \in BOOLEAN : KeyboardInput(w, input, element_state, repeat)
    \/ \E w \in Windows, closes \in BOOLEAN : CloseRequested(w, closes)

LaunchSpec == LaunchInit /\ [][LaunchNext]_vars

\* ------------------------------------------- calls on a WindowHandle
WindowStates == {"Maximized", "Minimized", "Restored"}

\* winit::window::Window::set_maximized, set_minimized and is_maximized, on
\* what the Window holds.
set_maximized(native, maximized) == [native EXCEPT !.maximized = maximized]
set_minimized(native, minimized) == [native EXCEPT !.minimized = minimized]
is_maximized(native) == native.maximized

\* WindowHandle::close(&self) {}: the body is empty.
Close(w) ==
    /\ Running
    /\ w \in windows
    /\ close_calls' = close_calls \cup {w}
    /\ UNCHANGED <<loop_vars, token_vars, hist_vars, idle_added, callback_log,
                   input_vars, pure_call, launch, native_state, last_set>>

\* WindowHandle::set_window_state(&mut self, state)
SetWindowState(w, state) ==
    /\ Running
    /\ w \in windows
    /\ native_state' =
          [native_state EXCEPT ![w] =
              CASE state = "Maximized" -> set_maximized(@, TRUE)
                [] state = "Minimized" -> set_minimized(@, TRUE)
                [] state = "Restored" -> set_minimized(set_maximized(@, FALSE), FALSE)]
    /\ last_set' = [last_set EXCEPT ![w] = state]
    /\ pure_call' = [NoCall EXCEPT !.fn = "set_window_state", !.window = w,
                                   !.done = TRUE]
    /\ UNCHANGED <<loop_vars, token_vars, hist_vars, idle_added, callback_log,
                   input_vars, close_calls, launch>>

\* WindowHandle::get_window_state(&self)
get_window_state(native) ==
    LET maximized == is_maximized(native)
    IN  IF maximized THEN "Maximized" ELSE "Restored"

\* A call of get_window_state on the handle of window w returns.
GetWindowState(w) ==
    /\ Running
    /\ w \in windows
    /\ pure_call' = [NoCall EXCEPT !.fn = "get_window_state", !.window = w,
                                   !.ret_state = get_window_state(native_state[w]),
                                   !.done = TRUE]
    /\ UNCHANGED <<loop_vars, token_vars, hist_vars, idle_added, callback_log,
                   input_vars, win_vars>>

\* The runs in which the application calls the handles of its windows, while
\* windows are closed at the user's request.
HandleInit ==
    /\ LoopInit
    /\ workload = [timers |-> 0, idles |-> 0, new_windows |-> 0,
                   closes |-> 2, inputs |-> 0]
    /\ pure_call = NoCall

HandleNext ==
    \/ NewEventsInit
    \/ WaitCancelled
    \/ EventsCleared
    \/ LoopDestroyed
    \/ \E w \in Windows : CloseRequested(w, TRUE)
    \/ \E w \in Windows : Close(w)
    \/ \E w \in Windows, state \in WindowStates : SetWindowState(w, state)
    \/ \E w \in Windows : GetWindowState(w)

HandleSpec == HandleInit /\ [][HandleNext]_vars

\* ------------------------------------------- calls of Modifiers' functions
RECURSIVE SumOf(_)
SumOf(S) == IF S = {} THEN 0 ELSE LET x == CHOOSE y \in S : TRUE
                                  IN  x + SumOf(S \ {x})

\* The flags the calls are made with, and the values made of them.
CallFlags == {SHIFT, CONTROL, ALT, META, CAPS_LOCK}
CallModifiers == {SumOf(S) : S \in SUBSET CallFlags}

ModifiersInit ==
    /\ LoopInit
    /\ workload = InputWorkload
    /\ pure_call \in {[NoCall EXCEPT !.fn = f, !.self = a, !.other = b, !.value = v] :
                         f \in {"contains", "set", "bitor"},
                         a \in CallModifiers, b \in CallModifiers, v \in BOOLEAN}

\* The call returns.
Return(call) ==
    /\ pure_call' = [call EXCEPT !.done = TRUE]
    /\ UNCHANGED <<loop_vars, token_vars, hist_vars, idle_added, callback_log,
                   input_vars, win_vars>>

\* self.contains(other)
Call_contains ==
    /\ pure_call.fn = "contains" /\ ~pure_call.done
    /\ Return([pure_call EXCEPT
                  !.ret_bool = Modifiers_contains(pure_call.self, pure_call.other)])

\* self.set(other, value)
Call_set ==
    /\ pure_call.fn = "set" /\ ~pure_call.done
    /\ Return([pure_call EXCEPT
                  !.ret_mods = Modifiers_set(pure_call.self, pure_call.other,
                                             pure_call.value)])

\* self | other
Call_bitor ==
    /\ pure_call.fn = "bitor" /\ ~pure_call.done
    /\ Return([pure_call EXCEPT
                  !.ret_mods = Modifiers_bitor(pure_call.self, pure_call.other)])

ModifiersNext == Call_contains \/ Call_set \/ Call_bitor

ModifiersSpec == ModifiersInit /\ [][ModifiersNext]_vars

\* --------------------------------------- calls of the key translation
KeyInit ==
    /\ LoopInit
    /\ workload = InputWorkload
    /\ pure_call \in
          {[NoCall EXCEPT !.fn = "winit_key", !.input = i, !.shift = sh] :
              i \in VirtualKeyCode \cup {NoKeycode}, sh \in BOOLEAN}
          \cup {[NoCall EXCEPT !.fn = "winit_keycode", !.input = i] :
                   i \in VirtualKeyCode}

\* winit_key(&input, shift)
Call_winit_key ==
    /\ pure_call.fn = "winit_key" /\ ~pure_call.done
    /\ Return([pure_call EXCEPT
                  !.ret_key = winit_key(pure_call.input, pure_call.shift)])

\* winit_keycode(&input)
Call_winit_keycode ==
    /\ pure_call.fn = "winit_keycode" /\ ~pure_call.done
    /\ Return([pure_call EXCEPT !.ret_code = winit_keycode(pure_call.input)])

KeyNext == Call_winit_key \/ Call_winit_keycode

KeySpec == KeyInit /\ [][KeyNext]_vars

\* ------------------------------------------------------- content_insets
\* kurbo::Rect; Size::new(width, height).to_rect().with_origin(origin)
Rect(x0, y0, x1, y1) == [x0 |-> x0, y0 |-> y0, x1 |-> x1, y1 |-> y1]
RectOf(origin_x, origin_y, width, height) ==
    Rect(origin_x, origin_y, origin_x + width, origin_y + height)

\* kurbo: impl Sub<Rect> for Rect, with Output = Insets.
Rect_sub(self, other) ==
    Insets(other.x0 - self.x0, other.y0 - self.y0,
           self.x1 - other.x1, self.y1 - other.y1)

\* WindowHandle::content_insets(&self), of a window of the given geometry.
content_insets(g) ==
    LET outer_position_x == IF g.outer_ok THEN g.outer_x ELSE Point_ZERO
        outer_position_y == IF g.outer_ok THEN g.outer_y ELSE Point_ZERO
        outer_rect == RectOf(outer_position_x, outer_position_y,
                             g.outer_width, g.outer_height)
        inner_position_x == IF g.inner_ok THEN g.inner_x ELSE Point_ZERO
        inner_position_y == IF g.inner_ok THEN g.inner_y ELSE Point_ZERO
        inner_rect == RectOf(inner_position_x, inner_position_y,
                             g.inner_width, g.outer_height)
    IN  Rect_sub(outer_rect, inner_rect)

\* The geometries of the calls: a window at an outer position, of an outer
\* size, with a border and a title bar around its content; a platform may
\* report no outer or no inner position.
Geometries ==
    {[outer_ok |-> oo, outer_x |-> ox, outer_y |-> oy,
      outer_width |-> 20, outer_height |-> oh,
      inner_ok |-> io, inner_x |-> ox + border, inner_y |-> oy + title,
      inner_width |-> 20 - 2 * border, inner_height |-> oh - title - border] :
        oo \in BOOLEAN, io \in BOOLEAN, ox \in {0, 5}, oy \in {0, 7},
        oh \in {20, 30}, border \in {0, 1}, title \in {0, 3}}

InsetsInit ==
    /\ LoopInit
    /\ workload = InputWorkload
    /\ pure_call \in {[NoCall EXCEPT !.fn = "content_insets", !.geometry = g] :
                         g \in Geometries}

\* handle.content_insets()
Call_content_insets ==
    /\ pure_call.fn = "content_insets" /\ ~pure_call.done
    /\ Return([pure_call EXCEPT !.ret_insets = content_insets(pure_call.geometry)])

InsetsNext == Call_content_insets

InsetsSpec == InsetsInit /\ [][InsetsNext]_vars

\* ------------------------------------------------------------------ timers
TimerTokensOf(log) == {log[i].token : i \in 1..Len(log)}
QueuedTimerTokens == {queue[i].token : i \in {j \in 1..Len(queue) : queue[j].type = "Timer"}}
PendingTimerTokens == {timer_tokens[k].token : k \in DOMAIN timer_tokens}

\* C1: the token of one request_timer call is dispatched to the handler at most
\* once: no token occurs twice among the Event::Timer dispatches.
C1_TimerAtMostOnce ==
    \A i, j \in 1..Len(timer_log) :
        timer_log[i].token = timer_log[j].token => i = j

\* Two timers have fired, over two wake-ups of the loop, and the loop waits again.
C1_Witness ==
    /\ Len(timer_log) >= 2
    /\ phase = "Waiting"

\* C2: a requested timer is never dropped without firing: the token of every
\* request_timer call is on its way to the loop, pending in the loop, or has
\* been dispatched.
C2_TimerNeverDropped ==
    \A r \in timer_requests :
        r.token \in QueuedTimerTokens \cup PendingTimerTokens \cup TimerTokensOf(timer_log)

\* C3: a Timer event is never dispatched before the time of its request_timer
\* call plus the duration asked for: in every step that dispatches a pending
\* timer, the clock has reached that time.
C3_TimerNotEarly ==
    [][\A k \in DOMAIN timer_tokens :
          (/\ Len(timer_log') = Len(timer_log) + 1
           /\ timer_log'[Len(timer_log')].token = timer_tokens[k].token)
          => now >= timer_tokens[k].due]_vars

\* A timer asked for with a duration of 2 has been dispatched.
C3_Witness ==
    \E i \in 1..Len(timer_log) : timer_log[i].deadline >= 2

\* C4: timers are dispatched in the order of their deadlines, whatever the
\* order they were registered in.
C4_TimersInDeadlineOrder ==
    \A i, j \in 1..Len(timer_log) :
        i < j => timer_log[i].deadline <= timer_log[j].deadline

\* Three timers registered in the order d3, d2, d1 have fired in the order
\* d1, d2, d3.
C4_Witness ==
    /\ Len(timer_log) = 3
    /\ timer_log[1].token = 3 /\ timer_log[2].token = 2 /\ timer_log[3].token = 1
    /\ timer_log[1].deadline < timer_log[2].deadline
    /\ timer_log[2].deadline < timer_log[3].deadline

\* C5: two pending timers with the same deadline are both kept: the handling of
\* a Timer user event keeps every timer that was pending.
C5_SameDeadlineBothKept ==
    [][(/\ queue /= <<>>
        /\ Head(queue).type = "Timer"
        /\ queue' = Tail(queue))
       => \A k \in DOMAIN timer_tokens :
             \E k2 \in DOMAIN timer_tokens' :
                timer_tokens'[k2].token = timer_tokens[k].token]_vars

\* C6: every Timer event dispatched carries a token that request_timer returned
\* before, and goes to the window whose handle made that call.
C6_TimerTokenAndWindow ==
    \A i \in 1..Len(timer_log) :
        \E r \in timer_requests :
            /\ r.token = timer_log[i].token
            /\ r.window_id = timer_log[i].window_id

\* Timers asked for through the handles of two windows have both fired.
C6_Witness ==
    \E i, j \in 1..Len(timer_log) :
        timer_log[i].window_id = 1 /\ timer_log[j].window_id = 2

\* ------------------------------------------------------------------ tokens
Distinct(s) == \A i, j \in 1..Len(s) : s[i] = s[j] => i = j

\* C7: for each token kind the tokens next() has returned, to any threads in any
\* interleaving, are pairwise distinct and none is INVALID.
C7_NextDistinctValid ==
    \A k \in TokenKinds :
        /\ Distinct(minted[k])
        /\ \A i \in 1..Len(minted[k]) : minted[k][i] /= INVALID

\* Three calls of one kind have returned, two of them overlapping: the call
\* that fetched first returned second.
C7_Witness ==
    \E k \in TokenKinds :
        /\ Len(minted[k]) >= 3
        /\ minted[k][1] > minted[k][2]

\* C8: every token add_text_field returns is not INVALID and differs from the
\* tokens of the earlier calls.
C8_AddTextFieldFresh ==
    /\ Distinct(text_fields)
    /\ \A i \in 1..Len(text_fields) : text_fields[i] /= INVALID

\* -------------------------------------------------------------------- idle
Delivered(id) == \E j \in 1..Len(idle_log) : idle_log[j].id = id

C10_IdleFifoPerHandle ==
    /\ \A i, j \in 1..Len(idle_log) :
          (i < j /\ idle_log[i].handle = idle_log[j].handle)
             => idle_log[i].id < idle_log[j].id
    /\ \A j \in 1..Len(idle_log) :
          /\ idle_log[j].id \in 1..Len(idle_sent)
          /\ idle_sent[idle_log[j].id].token = idle_log[j].token
          /\ idle_sent[idle_log[j].id].handle = idle_log[j].handle

\* Two different tokens scheduled through one handle have been delivered, and
\* the timer of the same run has fired.
C10_Witness ==
    /\ Len(idle_log) = 2
    /\ idle_log[1].handle = idle_log[2].handle
    /\ idle_log[1].token /= idle_log[2].token
    /\ Len(timer_log) = 1

\* ---------------------------------------------------------------- add_idle
CallsOf(id) == {j \in 1..Len(callback_log) : callback_log[j].id = id}

\* C11: a callback passed to add_idle is called exactly once, on the loop's
\* thread, when the message loop is empty: whenever the loop waits with nothing
\* queued and no window has gone, every callback added has been called once,
\* on that thread.
C11_AddIdleCalledOnce ==
    (phase = "Waiting" /\ queue = <<>> /\ windows = LaunchWindows)
       => \A id \in 1..idle_added :
             /\ Cardinality(CallsOf(id)) = 1
             /\ \A j \in CallsOf(id) : callback_log[j].thread = LoopThread

\* ------------------------------------------------------- input occurrences
\* The Modifiers that stand for a ModifiersState: one flag per key held.
ExpectedMods(winit_mods) ==
    (IF "shift" \in winit_mods THEN SHIFT ELSE 0)
    + (IF "ctrl" \in winit_mods THEN CONTROL ELSE 0)
    + (IF "alt" \in winit_mods THEN ALT ELSE 0)
    + (IF "logo" \in winit_mods THEN META ELSE 0)

\* C12: every key, mouse-button, mouse-move and wheel event handed to a window
\* carries the modifiers of the last ModifiersChanged occurrence of that window,
\* and none if there was no such occurrence.
C12_EventCarriesLastMods ==
    [][(/\ event_count' = event_count + 1
        /\ dispatched'.type \in MouseEventTypes \cup KeyEventTypes)
       => dispatched'.mods = ExpectedMods(last_mods[dispatched'.window_id])]_vars

\* A key event of window 2 carries shift and meta, the modifiers last reported
\* for that window, while those of window 1 are control and alt.
C12_Witness ==
    /\ dispatched.type = "KeyDown"
    /\ dispatched.window_id = 2
    /\ dispatched.mods = SHIFT + META
    /\ last_mods[1] = {"ctrl", "alt"}

C17_LocationOfKeyInstance ==
    /\ (dispatched.type \in KeyEventTypes /\ dispatched.code = "NumpadEnter")
          => (dispatched.key = Named("Enter") /\ dispatched.location = "Numpad")
    /\ (dispatched.type \in KeyEventTypes /\ dispatched.code = "ShiftRight")
          => (dispatched.key = Named("Shift") /\ dispatched.location = "Right")

\* C19: every occurrence on a window hands exactly one event to the handler,
\* and no event is handed over without an occurrence.
C19_OneEventPerOccurrence == event_count = occurrence_count

\* C20: a CloseRequested occurrence only forwards the request: when the handler
\* does not close the window, no window goes and the loop is not told to exit;
\* and the occurrence never takes away a window other than its own.
C20_CloseRequestOnlyForwards ==
    [][(/\ event_count' = event_count + 1
        /\ dispatched'.type = "RequestClose")
       => /\ windows \ windows' \subseteq {dispatched'.window_id}
          /\ ~dispatched'.closes
                => /\ windows' = windows
                   /\ control_flow' = control_flow
                   /\ phase' = phase]_vars

\* The handler left the window open, and the loop went on to wait with both
\* windows.
C20_Witness ==
    /\ dispatched.type = "RequestClose"
    /\ ~dispatched.closes
    /\ phase = "Waiting"
    /\ control_flow = Wait
    /\ windows = LaunchWindows

\* ---------------------------------------------------------------- Modifiers
\* The flags of Modifiers, and whether flag f is set in m.
AllFlags == {ALT, ALT_GRAPH, CAPS_LOCK, CONTROL, FN, FN_LOCK, META, NUM_LOCK,
             SCROLL_LOCK, SHIFT, SYMBOL, SYMBOL_LOCK, HYPER, SUPER}
HasFlag(m, f) == (m \div f) % 2 = 1

\* C14: a.contains(b) is true exactly when every flag set in b is set in a; so
\* empty() does not contain SHIFT, and a | b contains both a and b.
C14_ContainsIsSubset ==
    /\ (pure_call.done /\ pure_call.fn = "contains")
          => (pure_call.ret_bool
                <=> \A f \in AllFlags :
                       HasFlag(pure_call.other, f) => HasFlag(pure_call.self, f))
    /\ (pure_call.done /\ pure_call.fn = "bitor")
          => /\ Modifiers_contains(pure_call.ret_mods, pure_call.self)
             /\ Modifiers_contains(pure_call.ret_mods, pure_call.other)
    /\ ~Modifiers_contains(Modifiers_empty, SHIFT)

\* contains returned false for two values that share a flag.
C14_Witness ==
    /\ pure_call.done /\ pure_call.fn = "contains"
    /\ ~pure_call.ret_bool
    /\ pure_call.self = SHIFT + CONTROL
    /\ pure_call.other = SHIFT + ALT

\* C15: set(f, true) makes m contain f, set(f, false) makes it not contain f,
\* and every other flag keeps its value; so setting and clearing SHIFT on
\* empty() gives empty() again.
C15_SetOneFlag ==
    /\ (pure_call.done /\ pure_call.fn = "set" /\ pure_call.other \in AllFlags)
          => /\ HasFlag(pure_call.ret_mods, pure_call.other) = pure_call.value
             /\ Modifiers_contains(pure_call.ret_mods, pure_call.other) = pure_call.value
             /\ \A g \in AllFlags \ {pure_call.other} :
                   HasFlag(pure_call.ret_mods, g) = HasFlag(pure_call.self, g)
    /\ Modifiers_shift(Modifiers_set(Modifiers_empty, SHIFT, TRUE))
    /\ Modifiers_set(Modifiers_set(Modifiers_empty, SHIFT, TRUE), SHIFT, FALSE)
          = Modifiers_empty

\* SHIFT was set on a value that already held it, beside two other flags.
C15_Witness ==
    /\ pure_call.done /\ pure_call.fn = "set"
    /\ pure_call.value
    /\ pure_call.other = SHIFT
    /\ pure_call.self = SHIFT + CONTROL + META
    /\ pure_call.ret_mods = pure_call.self

\* ----------------------------------------------------------- key translation
\* The letter, digit and punctuation keys with the character each gives
\* without and with shift.
ShiftedCharacters ==
    {<<"Key1", "1", "!">>, <<"Key2", "2", "@">>, <<"Key3", "3", "#">>,
     <<"Key4", "4", "$">>, <<"Key5", "5", "%">>, <<"Key6", "6", "^">>,
     <<"Key7", "7", "&">>, <<"Key8", "8", "*">>, <<"Key9", "9", "(">>,
     <<"Key0", "0", ")">>,
     <<"A", "a", "A">>, <<"B", "b", "B">>, <<"C", "c", "C">>, <<"D", "d", "D">>,
     <<"E", "e", "E">>, <<"F", "f", "F">>, <<"G", "g", "G">>, <<"H", "h", "H">>,
     <<"I", "i", "I">>, <<"J", "j", "J">>, <<"K", "k", "K">>, <<"L", "l", "L">>,
     <<"M", "m", "M">>, <<"N", "n", "N">>, <<"O", "o", "O">>, <<"P", "p", "P">>,
     <<"Q", "q", "Q">>, <<"R", "r", "R">>, <<"S", "s", "S">>, <<"T", "t", "T">>,
     <<"U", "u", "U">>, <<"V", "v", "V">>, <<"W", "w", "W">>, <<"X", "x", "X">>,
     <<"Y", "y", "Y">>, <<"Z", "z", "Z">>,
     <<"Apostrophe", "'", "\"">>, <<"Backslash", "\\", "|">>,
     <<"Comma", ",", "<">>, <<"Equals", "=", "+">>, <<"Grave", "U+0060", "~">>,
     <<"LBracket", "[", "{">>, <<"Minus", "-", "_">>, <<"Period", ".", ">">>,
     <<"RBracket", "]", "}">>, <<"Semicolon", ";", ":">>, <<"Slash", "/", "?">>}
ShiftedKeys == {p[1] : p \in ShiftedCharacters}

\* C16: for a letter, digit or punctuation key winit_key returns the character
\* without shift when shift is false and the shifted character when it is
\* true; for every other input the key does not depend on shift.
C16_ShiftedCharacter ==
    (pure_call.done /\ pure_call.fn = "winit_key")
       => /\ \A p \in ShiftedCharacters :
                pure_call.input = p[1]
                   => pure_call.ret_key
                         = Character(IF pure_call.shift THEN p[3] ELSE p[2])
          /\ pure_call.input \notin ShiftedKeys
                => pure_call.ret_key = winit_key(pure_call.input, ~pure_call.shift)

\* Comma with shift gave "<".
C16_Witness ==
    /\ pure_call.done /\ pure_call.fn = "winit_key"
    /\ pure_call.input = "Comma" /\ pure_call.shift
    /\ pure_call.ret_key = Character("<")

\* The virtual key codes the tables have no key or no code for.
ReservedKeycodes == {"F13", "F14", "F15", "F16", "F17", "F18", "F19", "F20",
                     "F21", "F22", "F23", "F24"}

\* C18: the translations are total: every input, one without a virtual key
\* code and the reserved codes included, gets one Key and one Code,
\* Unidentified where there is no mapping, and no call fails.
C18_TranslationTotal ==
    /\ (pure_call.done /\ pure_call.fn = "winit_key")
          => /\ pure_call.ret_key.variant \notin {"-", "panic"}
             /\ (pure_call.ret_key.variant = "Character")
                   <=> (pure_call.ret_key.text /= "")
             /\ pure_call.input \in ReservedKeycodes \cup {NoKeycode}
                   => pure_call.ret_key = Named("Unidentified")
    /\ (pure_call.done /\ pure_call.fn = "winit_keycode")
          => /\ pure_call.ret_code \notin {"-", "panic"}
             /\ pure_call.input \in ReservedKeycodes
                   => pure_call.ret_code = "Unidentified"

\* winit_key returned for an input without a virtual key code.
C18_Witness ==
    /\ pure_call.done /\ pure_call.fn = "winit_key"
    /\ pure_call.input = NoKeycode
    /\ pure_call.ret_key = Named("Unidentified")
\* ---------------------------------------------------------- window handles
\* C21: a window WindowHandle::close was called on is torn down: it is no
\* longer among the open windows.
C21_CloseTearsDown ==
    \A w \in close_calls : w \notin windows

\* C25: when set_window_state(s) has been applied to a window, get_window_state
\* returns s, for s Maximized, Minimized and Restored.
C25_GetReturnsStateSet ==
    (pure_call.fn = "get_window_state" /\ pure_call.done
        /\ last_set[pure_call.window] /= "-")
    => pure_call.ret_state = last_set[pure_call.window]

\* ------------------------------------------------------- the last window
\* C22 (first part): once every window is closed the run loop eventually is
\* Stopped.
C22_StopsOnceAllClosed ==
    (windows = {}) ~> (phase = "Stopped")

\* C22 (second part): the run loop is never Stopped, nor leaving, while a
\* window is still open.
C22_NeverStoppedWhileOpen ==
    phase = "Stopped" => windows = {}

\* ------------------------------------------------------------------ launch
\* C23: when building a window of the launcher fails, launch returns the error
\* without the run loop having been started and before any window has been
\* created or shown.
C23_ErrorBeforeAnyWindow ==
    launch.result = "Err"
    => (phase = "Returned" /\ launch.created = {} /\ launch.shown = {})

\* ------------------------------------------- occurrences of unknown windows
\* C24: no key, mouse, wheel, move or resize occurrence ends the run loop: it
\* leaves the loop where it is, with its control flow and its pending timers;
\* one tagged with a window id no state is stored for is handled with scale 1,
\* no modifiers, no buttons held and the position at the origin.
C24_StrayOccurrenceHarmless ==
    [][(occurrence_count' = occurrence_count + 1
          /\ event_count' = event_count + 1
          /\ dispatched'.type /= "RequestClose")
       => /\ phase' = phase
          /\ control_flow' = control_flow
          /\ timer_tokens' = timer_tokens
          /\ windows' = windows
          /\ dispatched'.window_id \notin windows
             => LET e == dispatched'
                IN  /\ e.type \in MouseEventTypes \cup KeyEventTypes => e.mods = 0
                    /\ e.type \in {"Wheel", "MouseMove", "MouseUp"} => e.buttons = {}
                    /\ e.type = "MouseDown" => e.buttons \subseteq {e.button}
                    /\ e.type \in {"Wheel", "MouseDown", "MouseUp"} => e.pos = 0
                    /\ e.type \in {"MouseMove", "WindowMoved"} => e.pos \in Positions
      ]_vars

\* A mouse or key event has been built for a window id AppState never held a
\* window of, while a timer is pending.
C24_Witness ==
    /\ dispatched.window_id \notin LaunchWindows
    /\ dispatched.type \in MouseEventTypes \cup KeyEventTypes
    /\ timer_tokens /= EmptyMap
    /\ phase = "Processing"

\* ------------------------------------------------------- the wait target
\* C26: while the loop runs and has not been asked to exit, it waits until the
\* smallest deadline among the pending timers, and without a deadline exactly
\* when no timer is pending: the pending timer with the earliest deadline is the
\* next to wake it.
C26_WaitTargetIsEarliest ==
    (phase \in {"Processing", "Waiting"} /\ control_flow.kind /= "Exit")
    => /\ DOMAIN timer_tokens = {} <=> control_flow = Wait
       /\ DOMAIN timer_tokens /= {}
          => /\ control_flow.kind = "WaitUntil"
             /\ control_flow.at \in DOMAIN timer_tokens
             /\ \A k \in DOMAIN timer_tokens : control_flow.at <= k

\* The loop waits, after a timer has fired, with two more pending.
C26_Witness ==
    /\ phase = "Waiting"
    /\ timer_log /= <<>>
    /\ Cardinality(DOMAIN timer_tokens) >= 2
    /\ control_flow.kind = "WaitUntil"

\* C27: a pending timer is removed only by the wake-up at its deadline, which
\* removes it alone; every other step, and every other entry, leaves it as it
\* is: the registration of another timer, an idle post, a close request.
C27_OnlyFiringRemoves ==
    [][\A k \in DOMAIN timer_tokens :
          \/ k \in DOMAIN timer_tokens' /\ timer_tokens'[k] = timer_tokens[k]
          \/ /\ phase = "Waiting" /\ phase' = "Processing"
             /\ control_flow.kind = "WaitUntil" /\ k = control_flow.at
             /\ Len(timer_log') = Len(timer_log) + 1
             /\ timer_log'[Len(timer_log')].token = timer_tokens[k].token
             /\ DOMAIN timer_tokens' = DOMAIN timer_tokens \ {k}
      ]_vars

\* ------------------------------------------------- the stored modifiers
\* C28: the modifiers stored for a window have SHIFT, CONTROL, ALT and META
\* set exactly when the last ModifiersChanged of the window reported shift,
\* control, alt and super held, and no other flag: a modifier released since is
\* cleared.
C28_StoredModsAreSnapshot ==
    \A w \in Windows :
        /\ HasFlag(mods[w], SHIFT) <=> "shift" \in last_mods[w]
        /\ HasFlag(mods[w], CONTROL) <=> "ctrl" \in last_mods[w]
        /\ HasFlag(mods[w], ALT) <=> "alt" \in last_mods[w]
        /\ HasFlag(mods[w], META) <=> "logo" \in last_mods[w]
        /\ \A f \in AllFlags \ {SHIFT, CONTROL, ALT, META} : ~HasFlag(mods[w], f)

\* An event of a window was built while shift and super were held, and the
\* window's last ModifiersChanged reported control and alt only.
C28_Witness ==
    \E w \in windows :
        /\ dispatched.window_id = w
        /\ HasFlag(dispatched.mods, SHIFT)
        /\ last_mods[w] = {"ctrl", "alt"}
        /\ mods[w] = CONTROL + ALT

\* ------------------------------------------------------ the code of a key
\* C29: winit_keycode renames one to one: no other raw key identifier has the
\* identified Code a call has returned.
C29_CodeIsOneToOne ==
    (pure_call.fn = "winit_keycode" /\ pure_call.done
        /\ pure_call.ret_code /= "Unidentified")
    => \A other \in VirtualKeyCode \ {pure_call.input} :
          winit_keycode(other) /= pure_call.ret_code

\* ---------------------------------------------------------- content_insets
\* C30: content_insets returns, on each side, the distance between the outer
\* rectangle of the window (outer position, outer width and height) and its
\* inner rectangle (inner position, inner width and height).
C30_InsetsBetweenOuterAndInner ==
    (pure_call.fn = "content_insets" /\ pure_call.done
        /\ pure_call.geometry.outer_ok /\ pure_call.geometry.inner_ok)
    => LET g == pure_call.geometry
       IN  /\ pure_call.ret_insets.x0 = g.inner_x - g.outer_x
           /\ pure_call.ret_insets.y0 = g.inner_y - g.outer_y
           /\ pure_call.ret_insets.x1 =
                 (g.outer_x + g.outer_width) - (g.inner_x + g.inner_width)
           /\ pure_call.ret_insets.y1 =
                 (g.outer_y + g.outer_height) - (g.inner_y + g.inner_height)

====
